---- MODULE Spec2Model ----
(***************************************************************************)
(* Bomberman (tp1_bomberman): chain-reaction explosion on an N x N board   *)
(* of string tokens.  The model follows src/src/bomberman/mod.rs:          *)
(*   comenzar            -> action Comenzar (validation, start of blast)   *)
(*   explosion           -> IniciarRayo / action FinExplosion              *)
(*   explosion_dirigida  -> operator explosion_dirigida, action Rayo       *)
(*   calcular_prox, afectar_enemigo -> operators of the same name          *)
(* and src/src/main.rs:                                                    *)
(*   main                -> actions Main (up to comenzar) and Escribir     *)
(*   tablero_desde_archivo, es_tablero_valido, extraer_coord -> operators  *)
(* A token is the sequence of its characters ("B2" is <<"B","2">>).        *)
(***************************************************************************)
EXTENDS Integers, Sequences, FiniteSets, TLC

\* ------------------------------------------------------------------ bounds
N == 3
MaxAlcance == 3
MaxVida == 2
BitsUsize == 6

\* size of the boards used by the unit tests
TamTest == 3

UsizeMod == 2 ^ BitsUsize

\* ------------------------------------------------------------- characters
Digitos == <<"0", "1", "2", "3", "4", "5", "6", "7", "8", "9">>

\* char as usize, for the characters that occur in tokens
Codigo(c) ==
    CASE c = "0" -> 48 [] c = "1" -> 49 [] c = "2" -> 50 [] c = "3" -> 51
      [] c = "4" -> 52 [] c = "5" -> 53 [] c = "6" -> 54 [] c = "7" -> 55
      [] c = "8" -> 56 [] c = "9" -> 57
      [] c = "B" -> 66 [] c = "D" -> 68 [] c = "F" -> 70 [] c = "L" -> 76
      [] c = "R" -> 82 [] c = "S" -> 83 [] c = "U" -> 85 [] c = "W" -> 87
      [] c = "X" -> 88 [] c = "_" -> 95
      [] c = "+" -> 43 [] c = "-" -> 45 [] c = "a" -> 97

is_ascii_digit(c) == Codigo(c) >= 48 /\ Codigo(c) <= 57

\* usize subtraction (release build: wraps modulo the word size)
wrapping_sub(a, b) == (a - b) % UsizeMod

RECURSIVE Decimal(_)
\* the decimal digits of n, as format!("{}", n) writes them
Decimal(n) ==
    IF n < 10 THEN <<Digitos[n + 1]>>
    ELSE Decimal(n \div 10) \o <<Digitos[(n % 10) + 1]>>

\* chars().next() on the rest of a token: the first character or None
Primero(s) == IF Len(s) >= 1 THEN s[1] ELSE "None"
Segundo(s) == IF Len(s) >= 2 THEN s[2] ELSE "None"

Vacio == <<"_">>
Pared == <<"W">>
Roca == <<"R">>
Desvio(d) == <<"D", d>>
Enemigo(h) == <<"F">> \o Decimal(h)
BombaB(r) == <<"B">> \o Decimal(r)
BombaS(r) == <<"S">> \o Decimal(r)

Punto(px, py) == [x |-> px, y |-> py]

ErrCoord == "Error: coordenadas invalidas"
ErrEntrada == "Error: archivo de entrada invalido"

\* tablero.len(): the number of rows of a board
Filas(tab) == Cardinality(DOMAIN tab)

\* the panic of an index past the end of a row, tablero[y][x]
Panico == "panicked: index out of bounds"

\* ---------------------------------------------------------- pure functions
calcular_prox(direccion, x, y) ==
    CASE direccion = "U" -> [err |-> "Ok", pt |-> Punto(x, wrapping_sub(y, 1))]
      [] direccion = "D" -> [err |-> "Ok", pt |-> Punto(x, y + 1)]
      [] direccion = "R" -> [err |-> "Ok", pt |-> Punto(x + 1, y)]
      [] direccion = "L" -> [err |-> "Ok", pt |-> Punto(x, y)]
      [] OTHER -> [err |-> ErrEntrada, pt |-> Punto(x, y)]

\* afectar_enemigo without the test on the affected set
afectar_enemigo_sin_conjunto(enemigos, punto, tab, opt_vida_char) ==
    LET num == IF opt_vida_char = "None" THEN "X" ELSE opt_vida_char
        vida == wrapping_sub(Codigo(num), Codigo("0"))
        nuevo == IF vida = 1 THEN Vacio
                 ELSE <<"F">> \o Decimal(wrapping_sub(vida, 1))
    IN  IF is_ascii_digit(num)
        THEN [tab |-> [tab EXCEPT ![punto.y][punto.x] = nuevo],
              enemigos |-> enemigos \cup {punto}, res |-> "Ok"]
        ELSE [tab |-> tab, enemigos |-> enemigos \cup {punto},
              res |-> ErrEntrada]

\* afectar_enemigo adding a point of health where the source takes one
afectar_enemigo_sumando(enemigos, punto, tab, opt_vida_char) ==
    IF punto \notin enemigos
    THEN LET num == IF opt_vida_char = "None" THEN "X" ELSE opt_vida_char
             vida == wrapping_sub(Codigo(num), Codigo("0"))
             nuevo == IF vida = 1 THEN Vacio
                      ELSE <<"F">> \o Decimal(vida + 1)
         IN  IF is_ascii_digit(num)
             THEN [tab |-> [tab EXCEPT ![punto.y][punto.x] = nuevo],
                   enemigos |-> enemigos \cup {punto}, res |-> "Ok"]
             ELSE [tab |-> tab, enemigos |-> enemigos \cup {punto},
                   res |-> ErrEntrada]
    ELSE [tab |-> tab, enemigos |-> enemigos, res |-> "Ok"]

\* afectar_enemigo without the case of the last point of health
afectar_enemigo_sin_muerte(enemigos, punto, tab, opt_vida_char) ==
    IF punto \notin enemigos
    THEN LET num == IF opt_vida_char = "None" THEN "X" ELSE opt_vida_char
             vida == wrapping_sub(Codigo(num), Codigo("0"))
             nuevo == <<"F">> \o Decimal(wrapping_sub(vida, 1))
         IN  IF is_ascii_digit(num)
             THEN [tab |-> [tab EXCEPT ![punto.y][punto.x] = nuevo],
                   enemigos |-> enemigos \cup {punto}, res |-> "Ok"]
             ELSE [tab |-> tab, enemigos |-> enemigos \cup {punto},
                   res |-> ErrEntrada]
    ELSE [tab |-> tab, enemigos |-> enemigos, res |-> "Ok"]

\* result: the board, the affected set and Ok or the error
afectar_enemigo(enemigos, punto, tab, opt_vida_char) ==
    IF punto \notin enemigos
    THEN LET num == IF opt_vida_char = "None" THEN "X" ELSE opt_vida_char
             vida == wrapping_sub(Codigo(num), Codigo("0"))
             nuevo == IF vida = 1 THEN Vacio
                      ELSE <<"F">> \o Decimal(wrapping_sub(vida, 1))
         IN  IF is_ascii_digit(num)
             THEN [tab |-> [tab EXCEPT ![punto.y][punto.x] = nuevo],
                   enemigos |-> enemigos \cup {punto}, res |-> "Ok"]
             ELSE [tab |-> tab, enemigos |-> enemigos \cup {punto},
                   res |-> ErrEntrada]
    ELSE [tab |-> tab, enemigos |-> enemigos, res |-> "Ok"]

\* One invocation of explosion_dirigida.  sigue = TRUE: the invocation ends
\* in the recursive call with the arguments alcance, punto, direccion;
\* sigue = FALSE: it returns res.  push is the sequence of points it pushes
\* on pila_bombas.
Retorna(res, tab, enemigos, push) ==
    [sigue |-> FALSE, res |-> res, tab |-> tab, enemigos |-> enemigos,
     push |-> push, alcance |-> 0, punto |-> Punto(0, 0), direccion |-> "-"]

\* Recurre making the recursive call with the range it was called with
Recurre_mismo_alcance(alcance, punto, direccion, tab, enemigos) ==
    [sigue |-> TRUE, res |-> "Ok", tab |-> tab, enemigos |-> enemigos,
     push |-> <<>>, alcance |-> alcance + 1, punto |-> punto,
     direccion |-> direccion]

Recurre(alcance, punto, direccion, tab, enemigos) ==
    [sigue |-> TRUE, res |-> "Ok", tab |-> tab, enemigos |-> enemigos,
     push |-> <<>>, alcance |-> alcance, punto |-> punto,
     direccion |-> direccion]

\* desviar without the unit of range the turn consumes
desviar_sin_gastar(alcance, punto, c2, tab, enemigos) ==
    CASE c2 = "U" ->
           Recurre(alcance, Punto(punto.x, wrapping_sub(punto.y, 1)),
                   "U", tab, enemigos)
      [] c2 = "R" ->
           Recurre(alcance, Punto(punto.x + 1, punto.y), "R", tab, enemigos)
      [] c2 = "L" ->
           Recurre(alcance, Punto(wrapping_sub(punto.x, 1), punto.y),
                   "L", tab, enemigos)
      [] c2 = "D" ->
           Recurre(alcance, Punto(punto.x, punto.y + 1), "D", tab, enemigos)
      [] OTHER -> Retorna(ErrEntrada, tab, enemigos, <<>>)

\* the arm Some('D') of explosion_dirigida: the blast turns at a deflector
desviar(alcance, punto, c2, tab, enemigos) ==
    CASE c2 = "U" ->
           Recurre(alcance - 1, Punto(punto.x, wrapping_sub(punto.y, 1)),
                   "U", tab, enemigos)
      [] c2 = "R" ->
           Recurre(alcance - 1, Punto(punto.x + 1, punto.y), "R", tab,
                   enemigos)
      [] c2 = "L" ->
           Recurre(alcance - 1, Punto(wrapping_sub(punto.x, 1), punto.y),
                   "L", tab, enemigos)
      [] c2 = "D" ->
           Recurre(alcance - 1, Punto(punto.x, punto.y + 1), "D", tab,
                   enemigos)
      [] OTHER -> Retorna(ErrEntrada, tab, enemigos, <<>>)

\* encadenar clearing the bomb's cell as if the bomb went off at once
encadenar_detonando(punto, tab, enemigos) ==
    Retorna("Ok", [tab EXCEPT ![punto.y][punto.x] = Vacio], enemigos,
            <<Punto(punto.x, punto.y)>>)

\* the arm Some('B') | Some('S') of explosion_dirigida: the bomb is pushed
\* on pila_bombas and the ray returns
encadenar(punto, tab, enemigos) ==
    Retorna("Ok", tab, enemigos, <<Punto(punto.x, punto.y)>>)

explosion_dirigida(alcance, punto, tipo, tab, enemigos, direccion) ==
    IF alcance = 0 \/ punto.x >= Filas(tab) \/ punto.y >= Filas(tab)
    THEN Retorna("Ok", tab, enemigos, <<>>)
    ELSE
      LET prox == calcular_prox(direccion, punto.x, punto.y)
          celda == tab[punto.y][punto.x]
          c1 == Primero(celda)
          c2 == Segundo(celda)
      IN
      IF prox.err # "Ok" THEN Retorna(prox.err, tab, enemigos, <<>>)
      ELSE IF punto.x \notin DOMAIN tab[punto.y]
      THEN Retorna(Panico, tab, enemigos, <<>>)
      ELSE
      CASE c1 = "_" ->
             Recurre(alcance - 1, prox.pt, direccion, tab, enemigos)
        [] c1 = "D" -> desviar(alcance, punto, c2, tab, enemigos)
        [] c1 = "R" ->
             IF tipo = "S"
             THEN Recurre(alcance - 1, prox.pt, direccion, tab, enemigos)
             ELSE Retorna("Ok", tab, enemigos, <<>>)
        [] c1 \in {"B", "S"} -> encadenar(punto, tab, enemigos)
        [] c1 = "F" ->
             LET af == afectar_enemigo(enemigos, punto, tab, c2)
             IN  IF af.res # "Ok"
                 THEN Retorna(af.res, af.tab, af.enemigos, <<>>)
                 ELSE Recurre(alcance - 1, prox.pt, direccion,
                              af.tab, af.enemigos)
        [] c1 = "W" -> Retorna("Ok", tab, enemigos, <<>>)
        [] OTHER -> Retorna(ErrEntrada, tab, enemigos, <<>>)

\* the four rays of explosion, in the order of the vec! literal
Direcciones == <<"L", "U", "R", "D">>

\* IniciarRayo handing the rays one unit of range too many
IniciarRayo_alcance_de_mas(i, x, y, alcance) ==
    CASE i = 1 -> [alcance |-> alcance + 1,
                   punto |-> Punto(wrapping_sub(x, 1), y), direccion |-> "L"]
      [] i = 2 -> [alcance |-> alcance + 1,
                   punto |-> Punto(x, wrapping_sub(y, 1)), direccion |-> "U"]
      [] i = 3 -> [alcance |-> alcance + 1, punto |-> Punto(x + 1, y),
                   direccion |-> "R"]
      [] i = 4 -> [alcance |-> alcance + 1, punto |-> Punto(x, y + 1),
                   direccion |-> "D"]

\* arguments of the i-th call of explosion_dirigida made by explosion
IniciarRayo(i, x, y, alcance) ==
    CASE i = 1 -> [alcance |-> alcance, punto |-> Punto(wrapping_sub(x, 1), y),
                   direccion |-> "L"]
      [] i = 2 -> [alcance |-> alcance, punto |-> Punto(x, wrapping_sub(y, 1)),
                   direccion |-> "U"]
      [] i = 3 -> [alcance |-> alcance, punto |-> Punto(x + 1, y),
                   direccion |-> "R"]
      [] i = 4 -> [alcance |-> alcance, punto |-> Punto(x, y + 1),
                   direccion |-> "D"]

\* PrimerError never finding an error
PrimerError_sin_errores(rs) == "Ok"

\* `for resultado in resultados { resultado? }`: the first error, or Ok
RECURSIVE PrimerError(_)
PrimerError(rs) ==
    IF rs = <<>> THEN "Ok"
    ELSE IF Head(rs) # "Ok" THEN Head(rs) ELSE PrimerError(Tail(rs))

\* ------------------------------------------------------------------ state
VARIABLES
    tablero,             \* Bomberman.tablero, tablero[y][x]
    pila_bombas,         \* Bomberman.pila_bombas
    tablero_aux,         \* the working copy of explosion
    pc,                  \* "main", "comenzar", "rayo", "fin_rayo", "retorno",
                         \* "fin" (main returned), "panico"
    llamada,             \* the arguments (x, y) of the running comenzar
    bomba,               \* the arguments of the running explosion
    idx,                 \* which of the four rays is running
    rayo,                \* the arguments of the running explosion_dirigida
    enemigos_afectados,  \* the HashSet of the running ray
    resultados,          \* the results of the rays that returned
    resultado,           \* what the outermost comenzar returned
    inicial,             \* the board comenzar was first called on
    camino,              \* the cells read so far by the running ray
    base_pila,           \* pila_bombas.len() when the running explosion began
    golpes,              \* per cell, the rays that have read an enemy there
    salida,              \* the output file of main: whether it exists, its bytes
    args,                \* the command line, until main has consumed it
    archivo,             \* the rows of the input file, until main has read it
    empujes,             \* every point pushed on pila_bombas so far
    detonadas            \* every bomb whose explosion has been committed

vars == <<tablero, pila_bombas, tablero_aux, pc, llamada, bomba, idx, rayo,
          enemigos_afectados, resultados, resultado, inicial, camino,
          base_pila, golpes, salida, args, archivo, empujes, detonadas>>

Indices == 0 .. (N - 1)
Celdas == {Punto(px, py) : px \in Indices, py \in Indices}

\* the tokens the board loader and the unit tests use
Fichas ==
    {Vacio, Pared, Roca}
    \cup {Desvio(d) : d \in {"U", "D", "L", "R"}}
    \cup {Enemigo(h) : h \in 1 .. MaxVida}
    \cup {BombaB(r) : r \in 1 .. MaxAlcance}
    \cup {BombaS(r) : r \in 1 .. MaxAlcance}

\* the boards of the unit tests test01 .. test09
TablerosTest ==
    LET E == Vacio
    IN  { << <<E, E, E>>, <<E, BombaB(1), E>>, <<E, E, E>> >>,
          << <<E, E, E>>, <<E, BombaB(1), BombaS(1)>>, <<E, E, E>> >>,
          << <<E, E, E>>, <<BombaB(1), E, BombaS(1)>>, <<E, E, E>> >>,
          << <<BombaB(1), Roca, BombaB(2)>>, <<E, E, Roca>>,
             <<BombaB(1), Pared, BombaS(2)>> >>,
          << <<E, E, E>>, <<E, E, BombaS(1)>>,
             <<E, BombaB(2), Desvio("U")>> >>,
          << <<E, E, E>>, <<BombaB(1), Enemigo(1), E>>, <<E, E, E>> >>,
          << <<E, E, E>>, <<BombaB(1), Enemigo(2), E>>, <<E, E, E>> >>,
          << <<E, E, E>>, <<BombaB(2), Enemigo(2), BombaS(1)>>, <<E, E, E>> >>,
          << <<E, E, E>>, <<BombaB(3), Enemigo(2), Desvio("L")>>,
             <<E, E, E>> >> }

\* a test board as an N x N board indexed from 0, empty outside the test's cells
Tablero(b) ==
    [y \in Indices |-> [x \in Indices |->
        IF x < TamTest /\ y < TamTest THEN b[y + 1][x + 1] ELSE Vacio]]

\* further boards: two rays of one detonation that reach the same enemy, and
\* a chain with several pending bombs
TablerosExtra ==
    LET E == Vacio
    IN  { << <<E, Enemigo(2), E>>, <<E, BombaB(3), E>>,
             <<E, Desvio("U"), E>> >>,
          << <<E, BombaB(1), E>>, <<E, BombaB(1), E>>,
             <<BombaB(1), BombaB(1), E>> >> }

\* the boards the runs start from: a board of the tests or of TablerosExtra
\* with at most one cell replaced by a token of fichas
TablerosIniciales(fichas) ==
    {Tablero(b) : b \in TablerosTest \cup TablerosExtra}
    \cup {[Tablero(b) EXCEPT ![c.y][c.x] = f] :
            b \in TablerosTest \cup TablerosExtra, c \in Celdas, f \in fichas}

\* tokens the board loader rejects and comenzar can still be called on:
\* bombs of range 0 and tokens a ray fails on
FichasCrudas ==
    Fichas \cup {BombaB(0), BombaS(0), <<"X">>, <<"D", "X">>, <<"F", "X">>}

RayoNulo == [alcance |-> 0, punto |-> Punto(0, 0), direccion |-> "-"]
BombaNula == [x |-> 0, y |-> 0, alcance |-> 0, tipo |-> "-"]

\* the state in which comenzar is first called, on a board of tabs
Inicio(tabs) ==
    /\ tablero \in tabs
    /\ llamada \in Celdas
    /\ pila_bombas = <<>>
    /\ tablero_aux = tablero
    /\ inicial = tablero
    /\ pc = "comenzar"
    /\ bomba = BombaNula
    /\ idx = 0
    /\ rayo = RayoNulo
    /\ enemigos_afectados = {}
    /\ resultados = <<>>
    /\ resultado = "pendiente"
    /\ camino = <<>>
    /\ base_pila = 0
    /\ golpes = [p \in Celdas |-> 0]
    /\ salida = [existe |-> TRUE, bytes |-> <<>>]
    /\ args = <<>>
    /\ archivo = <<>>
    /\ empujes = <<>>
    /\ detonadas = <<>>

\* comenzar called on a board the loader accepts
Init == Inicio(TablerosIniciales(Fichas))

\* comenzar called by a user of the library on a board that was not loaded
InitCrudo == Inicio(TablerosIniciales(FichasCrudas))

\* comenzar returns res to its caller; every comenzar frame returns what the
\* inner one returned, so the outermost call returns res
Devolver(res) ==
    /\ resultado' = res
    /\ pc' = "retorno"

\* validar_casilla without the test on the kind of the cell
validar_casilla_sin_tipo(valor_casilla) ==
    IF Len(valor_casilla) < 2 THEN ErrCoord ELSE "Ok"

\* the checks of comenzar on the cell it is called on
validar_casilla(valor_casilla) ==
    IF Len(valor_casilla) < 2 THEN ErrCoord
    ELSE IF Primero(valor_casilla) # "B" /\ Primero(valor_casilla) # "S"
         THEN ErrCoord
         ELSE "Ok"

\* parametros keeping, for a chained bomb, the kind of the bomb before it
parametros_heredados(valor_casilla) ==
    LET alcance_str == IF Segundo(valor_casilla) = "None" THEN "X"
                       ELSE Segundo(valor_casilla)
    IN  [tipo |-> IF bomba = BombaNula THEN Primero(valor_casilla)
                  ELSE bomba.tipo,
         alcance |-> wrapping_sub(Codigo(alcance_str), Codigo("0"))]

\* the kind and the range comenzar reads from the token of its cell
parametros(valor_casilla) ==
    LET alcance_str == IF Segundo(valor_casilla) = "None" THEN "X"
                       ELSE Segundo(valor_casilla)
    IN  [tipo |-> Primero(valor_casilla),
         alcance |-> wrapping_sub(Codigo(alcance_str), Codigo("0"))]

\* clonar_y_borrar leaving the bomb in its cell
clonar_sin_borrar(tab, x, y) == tab

\* explosion: the clone of the board, the cell of the bomb set to "_"
clonar_y_borrar(tab, x, y) == [tab EXCEPT ![y][x] = Vacio]

\* comenzar, up to the call of explosion and the first ray's arguments
Comenzar ==
    /\ pc = "comenzar"
    /\ LET x == llamada.x
           y == llamada.y
           valor_casilla == tablero[y][x]
           tipo_opt == parametros(valor_casilla).tipo
           alcance == parametros(valor_casilla).alcance
       IN  IF x \notin DOMAIN tablero[y]
           THEN /\ pc' = "panico"
                /\ UNCHANGED <<tablero, pila_bombas, tablero_aux, llamada,
                               bomba, idx, rayo, enemigos_afectados,
                               resultados, resultado, inicial, camino,
                               base_pila, golpes>>
           ELSE IF validar_casilla(valor_casilla) # "Ok"
           THEN /\ Devolver(validar_casilla(valor_casilla))
                /\ UNCHANGED <<tablero, pila_bombas, tablero_aux, llamada,
                               bomba, idx, rayo, enemigos_afectados,
                               resultados, inicial, camino, base_pila,
                               golpes>>
           ELSE /\ bomba' = [x |-> x, y |-> y, alcance |-> alcance,
                             tipo |-> tipo_opt]
                /\ tablero_aux' = clonar_y_borrar(tablero, x, y)
                /\ resultados' = <<>>
                /\ idx' = 1
                /\ rayo' = IniciarRayo(1, x, y, alcance)
                /\ enemigos_afectados' = {}
                /\ camino' = <<>>
                /\ base_pila' = Len(pila_bombas)
                /\ pc' = "rayo"
                /\ UNCHANGED <<tablero, pila_bombas, llamada, resultado,
                               inicial, golpes>>
    /\ UNCHANGED <<salida, args, archivo, empujes, detonadas>>

\* one invocation of explosion_dirigida by the running ray
Rayo ==
    /\ pc = "rayo"
    /\ LET r == explosion_dirigida(rayo.alcance, rayo.punto, bomba.tipo,
                                   tablero_aux, enemigos_afectados,
                                   rayo.direccion)
           lee == /\ rayo.alcance # 0
                  /\ rayo.punto.x < Filas(tablero_aux)
                  /\ rayo.punto.y < Filas(tablero_aux)
                  /\ rayo.punto.x \in DOMAIN tablero_aux[rayo.punto.y]
       IN  /\ tablero_aux' = r.tab
           /\ pila_bombas' = pila_bombas \o r.push
           /\ empujes' = empujes \o r.push
           /\ enemigos_afectados' = r.enemigos
           /\ camino' = IF lee THEN Append(camino, rayo.punto) ELSE camino
           /\ golpes' =
                IF /\ lee
                   /\ rayo.punto \in DOMAIN golpes
                   /\ Primero(tablero_aux[rayo.punto.y][rayo.punto.x]) = "F"
                   /\ \A i \in 1 .. Len(camino) : camino[i] # rayo.punto
                THEN [golpes EXCEPT ![rayo.punto] = @ + 1]
                ELSE golpes
           /\ IF r.sigue
              THEN /\ rayo' = [alcance |-> r.alcance, punto |-> r.punto,
                               direccion |-> r.direccion]
                   /\ UNCHANGED <<resultados, pc>>
              ELSE IF r.res = Panico
              THEN /\ pc' = "panico"
                   /\ UNCHANGED <<resultados, rayo>>
              ELSE /\ resultados' = Append(resultados, r.res)
                   /\ pc' = "fin_rayo"
                   /\ UNCHANGED rayo
    /\ UNCHANGED <<tablero, llamada, bomba, idx, resultado, inicial, base_pila,
                   salida, args, archivo, detonadas>>

\* SiguienteRayo handing the next ray the set of the previous one
SiguienteRayo_conjunto_compartido ==
    /\ pc = "fin_rayo"
    /\ idx < 4
    /\ idx' = idx + 1
    /\ rayo' = IniciarRayo(idx + 1, bomba.x, bomba.y, bomba.alcance)
    /\ camino' = <<>>
    /\ pc' = "rayo"
    /\ UNCHANGED <<tablero, pila_bombas, tablero_aux, llamada, bomba,
                   resultados, resultado, inicial, base_pila, golpes,
                   enemigos_afectados, salida, args, archivo, empujes,
                   detonadas>>

\* explosion goes on to the next element of the vec! literal: the next ray,
\* with its own HashSet::new()
SiguienteRayo ==
    /\ pc = "fin_rayo"
    /\ idx < 4
    /\ idx' = idx + 1
    /\ rayo' = IniciarRayo(idx + 1, bomba.x, bomba.y, bomba.alcance)
    /\ enemigos_afectados' = {}
    /\ camino' = <<>>
    /\ pc' = "rayo"
    /\ UNCHANGED <<tablero, pila_bombas, tablero_aux, llamada, bomba,
                   resultados, resultado, inicial, base_pila, golpes,
                   salida, args, archivo, empujes, detonadas>>

\* FinExplosion taking the oldest pending bomb instead of the newest
FinExplosion_fifo ==
    /\ pc = "fin_rayo"
    /\ idx = 4
    /\ LET e == PrimerError(resultados)
       IN  IF e # "Ok"
           THEN /\ Devolver(e)
                /\ UNCHANGED <<tablero, pila_bombas, llamada, detonadas>>
           ELSE /\ tablero' = tablero_aux
                /\ detonadas' = Append(detonadas, Punto(bomba.x, bomba.y))
                /\ IF pila_bombas # <<>>
                   THEN /\ llamada' = Head(pila_bombas)
                        /\ pila_bombas' = Tail(pila_bombas)
                        /\ pc' = "comenzar"
                        /\ UNCHANGED resultado
                   ELSE /\ Devolver("Ok")
                        /\ UNCHANGED <<pila_bombas, llamada>>
    /\ UNCHANGED <<tablero_aux, bomba, idx, rayo, enemigos_afectados,
                   resultados, inicial, camino, base_pila, golpes,
                   salida, args, archivo, empujes>>

\* FinExplosion committing the working copy before it returns an error
FinExplosion_compromete_siempre ==
    /\ pc = "fin_rayo"
    /\ idx = 4
    /\ tablero' = tablero_aux
    /\ LET e == PrimerError(resultados)
       IN  IF e # "Ok"
           THEN /\ Devolver(e)
                /\ UNCHANGED <<pila_bombas, llamada, detonadas>>
           ELSE /\ detonadas' = Append(detonadas, Punto(bomba.x, bomba.y))
                /\ IF pila_bombas # <<>>
                   THEN /\ llamada' = pila_bombas[Len(pila_bombas)]
                        /\ pila_bombas' = SubSeq(pila_bombas, 1,
                                                 Len(pila_bombas) - 1)
                        /\ pc' = "comenzar"
                        /\ UNCHANGED resultado
                   ELSE /\ Devolver("Ok")
                        /\ UNCHANGED <<pila_bombas, llamada>>
    /\ UNCHANGED <<tablero_aux, bomba, idx, rayo, enemigos_afectados,
                   resultados, inicial, camino, base_pila, golpes,
                   salida, args, archivo, empujes>>

\* FinExplosion returning Ok after the commit without looking at pila_bombas
FinExplosion_sin_pila ==
    /\ pc = "fin_rayo"
    /\ idx = 4
    /\ LET e == PrimerError(resultados)
       IN  IF e # "Ok"
           THEN /\ Devolver(e)
                /\ UNCHANGED <<tablero, pila_bombas, llamada, detonadas>>
           ELSE /\ tablero' = tablero_aux
                /\ detonadas' = Append(detonadas, Punto(bomba.x, bomba.y))
                /\ Devolver("Ok")
                /\ UNCHANGED <<pila_bombas, llamada>>
    /\ UNCHANGED <<tablero_aux, bomba, idx, rayo, enemigos_afectados,
                   resultados, inicial, camino, base_pila, golpes,
                   salida, args, archivo, empujes>>

\* the end of explosion and the rest of comenzar: the results are collected,
\* the board is committed and the next pending bomb is popped
FinExplosion ==
    /\ pc = "fin_rayo"
    /\ idx = 4
    /\ LET e == PrimerError(resultados)
       IN  IF e # "Ok"
           THEN /\ Devolver(e)
                /\ UNCHANGED <<tablero, pila_bombas, llamada, detonadas>>
           ELSE /\ tablero' = tablero_aux
                /\ detonadas' = Append(detonadas, Punto(bomba.x, bomba.y))
                /\ IF pila_bombas # <<>>
                   THEN /\ llamada' = pila_bombas[Len(pila_bombas)]
                        /\ pila_bombas' = SubSeq(pila_bombas, 1,
                                                 Len(pila_bombas) - 1)
                        /\ pc' = "comenzar"
                        /\ UNCHANGED resultado
                   ELSE /\ Devolver("Ok")
                        /\ UNCHANGED <<pila_bombas, llamada>>
    /\ UNCHANGED <<tablero_aux, bomba, idx, rayo, enemigos_afectados,
                   resultados, inicial, camino, base_pila, golpes,
                   salida, args, archivo, empujes>>

\* fila.join(" "): the characters of the tokens, sep between two tokens
RECURSIVE join(_, _)
join(fila, sep) ==
    IF fila = <<>> THEN <<>>
    ELSE IF Len(fila) = 1 THEN fila[1]
    ELSE fila[1] \o <<sep>> \o join(Tail(fila), sep)

\* a row of the board as the sequence of its tokens
FilaSeq(fila) == [i \in 1 .. Cardinality(DOMAIN fila) |-> fila[i - 1]]

\* the bytes escribir_tablero_final_en_archivo writes for the rows from
\* indice on: a line feed after every row but the last
RECURSIVE escribir_filas(_, _)
escribir_filas(tab, indice) ==
    IF indice >= Filas(tab) THEN <<>>
    ELSE IF indice = Filas(tab) - 1 THEN join(FilaSeq(tab[indice]), " ")
    ELSE join(FilaSeq(tab[indice]), " ") \o <<"\n">>
         \o escribir_filas(tab, indice + 1)

escribir_tablero_final_en_archivo(tab) == escribir_filas(tab, 0)

\* the bytes devolver_error writes: the message and nothing else
devolver_error(error_string) == <<error_string>>

\* Escribir writing the board whatever comenzar returned
Escribir_siempre_el_tablero ==
    /\ pc = "retorno"
    /\ salida' = [salida EXCEPT
                    !.bytes = @ \o escribir_tablero_final_en_archivo(tablero)]
    /\ pc' = "fin"
    /\ UNCHANGED <<tablero, pila_bombas, tablero_aux, llamada, bomba, idx,
                   rayo, enemigos_afectados, resultados, resultado, inicial,
                   camino, base_pila, golpes, args, archivo, empujes,
                   detonadas>>

\* main after comenzar returned: the error or the final board is written
Escribir ==
    /\ pc = "retorno"
    /\ salida' = [salida EXCEPT
                    !.bytes =
                        IF resultado = "Ok"
                        THEN @ \o escribir_tablero_final_en_archivo(tablero)
                        ELSE @ \o devolver_error(resultado)]
    /\ pc' = "fin"
    /\ UNCHANGED <<tablero, pila_bombas, tablero_aux, llamada, bomba, idx,
                   rayo, enemigos_afectados, resultados, resultado, inicial,
                   camino, base_pila, golpes, args, archivo, empujes,
                   detonadas>>

Next == Comenzar \/ Rayo \/ SiguienteRayo \/ FinExplosion \/ Escribir

\* ------------------------------------------------------------------- main
\* The input file is the sequence of its lines, a line the sequence of its
\* characters.  The paths of the command line are taken to be usable: the
\* input file opens and the output file can be created.

\* casillas.split_whitespace(): the maximal runs of characters other than " "
RECURSIVE split_whitespace(_)
split_whitespace(linea) ==
    IF linea = <<>> THEN <<>>
    ELSE IF Head(linea) = " " THEN split_whitespace(Tail(linea))
    ELSE LET n == CHOOSE i \in 2 .. Len(linea) + 1 :
                    /\ i = Len(linea) + 1 \/ linea[i] = " "
                    /\ \A j \in 1 .. i - 1 : linea[j] # " "
         IN  <<SubSeq(linea, 1, n - 1)>>
             \o split_whitespace(SubSeq(linea, n, Len(linea)))

validos_no_bomba ==
    {<<"_">>, <<"W">>, <<"R">>, <<"D", "U">>, <<"D", "L">>, <<"D", "R">>,
     <<"D", "D">>, <<"F", "1">>, <<"F", "2">>, <<"F", "3">>}

\* the body of the loops of es_tablero_valido: elem does not make it false
elem_valido(elem) ==
    \/ elem \in validos_no_bomba
    \/ LET prim == Primero(elem)
           sec == IF Segundo(elem) = "None" THEN "X" ELSE Segundo(elem)
       IN  /\ prim = "S" \/ prim = "B"
           /\ is_ascii_digit(sec)
           /\ sec # "0"

es_tablero_valido(filas) ==
    \A i \in 1 .. Len(filas) :
        \A j \in 1 .. Len(filas[i]) : elem_valido(filas[i][j])

\* a Vec, indexed from 0
Vec(sq) == [i \in 0 .. Len(sq) - 1 |-> sq[i + 1]]

\* result: Ok and the board, or the error
tablero_desde_archivo(lineas) ==
    LET filas == [i \in 1 .. Len(lineas) |-> split_whitespace(lineas[i])]
    IN  IF es_tablero_valido(filas)
        THEN [err |-> "Ok",
              tab |-> Vec([i \in 1 .. Len(filas) |-> Vec(filas[i])])]
        ELSE [err |-> ErrEntrada, tab |-> <<>>]

\* the value of a sequence of decimal digits
RECURSIVE valor_decimal(_)
valor_decimal(ds) ==
    IF ds = <<>> THEN 0
    ELSE valor_decimal(SubSeq(ds, 1, Len(ds) - 1)) * 10
         + (Codigo(ds[Len(ds)]) - Codigo("0"))

\* str::parse::<usize>: an optional "+", then one or more digits, the value
\* below the word size
parse(str) ==
    LET cuerpo == IF Primero(str) = "+" THEN Tail(str) ELSE str
    IN  IF cuerpo = <<>> \/ \E i \in 1 .. Len(cuerpo) :
                                ~is_ascii_digit(cuerpo[i])
        THEN [ok |-> FALSE, v |-> 0]
        ELSE IF valor_decimal(cuerpo) >= UsizeMod
        THEN [ok |-> FALSE, v |-> 0]
        ELSE [ok |-> TRUE, v |-> valor_decimal(cuerpo)]

\* extraer_coord with > where the source has >=
extraer_coord_hasta_tamanio(argv, tamanio, i1, i2) ==
    LET px == parse(argv[i1 + 1])
        py == parse(argv[i2 + 1])
    IN  IF ~px.ok THEN [err |-> ErrCoord, pt |-> Punto(0, 0)]
        ELSE IF ~py.ok THEN [err |-> ErrCoord, pt |-> Punto(0, 0)]
        ELSE IF px.v > tamanio \/ py.v > tamanio
        THEN [err |-> ErrCoord, pt |-> Punto(0, 0)]
        ELSE [err |-> "Ok", pt |-> Punto(px.v, py.v)]

\* argv[k + 1] is args[k] of the source
extraer_coord(argv, tamanio, i1, i2) ==
    LET px == parse(argv[i1 + 1])
        py == parse(argv[i2 + 1])
    IN  IF ~px.ok THEN [err |-> ErrCoord, pt |-> Punto(0, 0)]
        ELSE IF ~py.ok THEN [err |-> ErrCoord, pt |-> Punto(0, 0)]
        ELSE IF px.v >= tamanio \/ py.v >= tamanio
        THEN [err |-> ErrCoord, pt |-> Punto(0, 0)]
        ELSE [err |-> "Ok", pt |-> Punto(px.v, py.v)]

\* main up to the call of comenzar
Main ==
    /\ pc = "main"
    /\ IF Len(args) < 5
       THEN /\ pc' = "fin"
            /\ UNCHANGED <<salida, tablero, tablero_aux, inicial, llamada>>
       ELSE LET carga == tablero_desde_archivo(archivo)
                tamanio == Filas(carga.tab)
                coord == extraer_coord(args, tamanio, 3, 4)
            IN  IF carga.err # "Ok"
                THEN /\ salida' = [existe |-> TRUE,
                                   bytes |-> devolver_error(carga.err)]
                     /\ pc' = "fin"
                     /\ UNCHANGED <<tablero, tablero_aux, inicial, llamada>>
                ELSE /\ tablero' = carga.tab
                     /\ tablero_aux' = carga.tab
                     /\ inicial' = carga.tab
                     /\ IF coord.err # "Ok"
                        THEN /\ salida' = [existe |-> TRUE,
                                           bytes |-> devolver_error(coord.err)]
                             /\ pc' = "fin"
                             /\ UNCHANGED llamada
                        ELSE /\ salida' = [existe |-> TRUE, bytes |-> <<>>]
                             /\ llamada' = coord.pt
                             /\ pc' = "comenzar"
    /\ args' = <<>>
    /\ archivo' = <<>>
    /\ UNCHANGED <<pila_bombas, bomba, idx, rayo, enemigos_afectados,
                   resultados, resultado, camino, base_pila, golpes, empujes,
                   detonadas>>

\* tokens an input file can hold: those of Fichas and others, valid or not
FichasArchivo ==
    Fichas
    \cup {Enemigo(3), Enemigo(4), Enemigo(9), BombaB(9), BombaS(9)}
    \cup {<<"F", "0">>, <<"F">>, BombaB(0), BombaS(0), <<"B">>, <<"B", "X">>,
          <<"B", "1", "2">>, <<"S", "2", "X">>, <<"X">>, <<"D", "X">>,
          <<"D">>, <<"D", "U", "U">>, <<"_", "_">>}

\* the rows of a board, each the sequence of its tokens
FilasDe(tab) == [i \in 1 .. Filas(tab) |-> FilaSeq(tab[i - 1])]

\* the lines of the file that holds the rows filas
Lineas(filas) == [i \in 1 .. Len(filas) |-> join(filas[i], " ")]

\* the rows of the boards of the tests and of TablerosExtra
FilasValidas == {FilasDe(Tablero(b)) : b \in TablerosTest \cup TablerosExtra}

\* the board of test08 with one cell replaced by a token of FichasArchivo
FilasConFicha ==
    LET E == Vacio
        b == Tablero(<< <<E, E, E>>, <<BombaB(2), Enemigo(2), BombaS(1)>>,
                        <<E, E, E>> >>)
    IN  {FilasDe([b EXCEPT ![c.y][c.x] = f]) :
            c \in Celdas, f \in FichasArchivo}

\* rows that do not form a square: a row missing or added, a token missing
\* or added in a row, an empty line, the empty file
FilasNoCuadradas ==
    {SubSeq(fs, 1, Len(fs) - 1) : fs \in FilasValidas}
    \cup {Append(fs, fs[1]) : fs \in FilasValidas}
    \cup {[fs EXCEPT ![i] = Tail(@)] : fs \in FilasValidas, i \in 1 .. N}
    \cup {[fs EXCEPT ![i] = Append(@, Vacio)] :
            fs \in FilasValidas, i \in 1 .. N}
    \cup {[fs EXCEPT ![i] = <<>>] : fs \in FilasValidas, i \in 1 .. N}
    \cup {<<>>}

\* the input files: the lines of the rows above, and the valid boards
\* written with more white space than one " " between tokens
Archivos ==
    {Lineas(fs) : fs \in FilasValidas \cup FilasConFicha \cup FilasNoCuadradas}
    \cup {[Lineas(fs) EXCEPT ![1] = <<" ">> \o @ \o <<" ", " ">>] :
            fs \in FilasValidas}

\* the strings given as coordinates
CoordArgs ==
    {Decimal(k) : k \in 0 .. N}
    \cup {<<"-", "1">>, <<"a">>, <<>>, <<"+", "1">>, Decimal(UsizeMod)}

\* the command lines: the program, the input path, the output directory and
\* the two coordinates, or fewer arguments
ArgsIniciales ==
    {<<"bomberman", "tablero.txt", "salida", cx, cy>> :
        cx \in CoordArgs, cy \in CoordArgs}
    \cup {SubSeq(<<"bomberman", "tablero.txt", "salida", <<"1">> >>, 1, k) :
            k \in 1 .. 4}

\* the start of main
InitMain ==
    /\ args \in ArgsIniciales
    /\ archivo \in Archivos
    /\ pc = "main"
    /\ salida = [existe |-> FALSE, bytes |-> <<>>]
    /\ tablero = <<>>
    /\ tablero_aux = <<>>
    /\ inicial = <<>>
    /\ llamada = Punto(0, 0)
    /\ pila_bombas = <<>>
    /\ bomba = BombaNula
    /\ idx = 0
    /\ rayo = RayoNulo
    /\ enemigos_afectados = {}
    /\ resultados = <<>>
    /\ resultado = "pendiente"
    /\ camino = <<>>
    /\ base_pila = 0
    /\ golpes = [p \in Celdas |-> 0]
    /\ empujes = <<>>
    /\ detonadas = <<>>

NextMain == Main \/ Next

\* the whole program
SpecMain == InitMain /\ [][NextMain]_vars

Spec == Init /\ [][Next]_vars

SpecCrudo == InitCrudo /\ [][Next]_vars

\* the program is sequential and runs on: a step that can be taken is taken
SpecJusto == Spec /\ WF_vars(Next)

\* ----------------------------------------------------------------- claims
EnTablero(p) == p.x < N /\ p.y < N
Ficha(tab, p) == tab[p.y][p.x]
EsBomba(t) == Primero(t) \in {"B", "S"}
EsEnemigo(t) == Primero(t) = "F"
EsDesvio(t) == Primero(t) = "D"
Valores(sq) == {sq[i] : i \in 1 .. Len(sq)}
Abs(n) == IF n < 0 THEN 0 - n ELSE n
Manhattan(p, q) == Abs(p.x - q.x) + Abs(p.y - q.y)

\* the cell next to p in direction d; a coordinate of -1 is the wrapped usize
Sig(p, d) ==
    CASE d = "U" -> Punto(p.x, (p.y - 1) % UsizeMod)
      [] d = "D" -> Punto(p.x, p.y + 1)
      [] d = "L" -> Punto((p.x - 1) % UsizeMod, p.y)
      [] d = "R" -> Punto(p.x + 1, p.y)

\* the cell at straight-line distance k from p in direction d (signed)
EnLinea(p, d, k) ==
    CASE d = "U" -> [x |-> p.x, y |-> p.y - k]
      [] d = "D" -> [x |-> p.x, y |-> p.y + k]
      [] d = "L" -> [x |-> p.x - k, y |-> p.y]
      [] d = "R" -> [x |-> p.x + k, y |-> p.y]

\* a cell a straight blast of kind tipo passes through
DejaPasar(t, tipo) ==
    t = Vacio \/ EsEnemigo(t) \/ (t = Roca /\ tipo = "S")

\* the bomb cells in the blast radius of the bomb b of kind tipo and range
\* alcance on the board tab, restricted to the directions dirs
EnRadio(tab, b, tipo, alcance, dirs) ==
    {p \in Celdas :
        /\ p # b
        /\ EsBomba(Ficha(tab, p))
        /\ \E d \in dirs, k \in 1 .. alcance :
              /\ EnLinea(b, d, k) = p
              /\ \A j \in 1 .. (k - 1) :
                    DejaPasar(Ficha(tab, EnLinea(b, d, j)), tipo)}

\* the number a bomb or enemy token carries: its range or its health
DigitoDe(t) == Codigo(t[2]) - Codigo("0")

\* the running invocation of explosion_dirigida reads a cell starting with c
EnCelda(c) ==
    /\ pc = "rayo"
    /\ rayo.alcance >= 1
    /\ EnTablero(rayo.punto)
    /\ Primero(Ficha(tablero_aux, rayo.punto)) = c

\* the ray goes on at the cell next to the current one in direction d, with
\* one unit of range less
SigueHacia(d) ==
    /\ pc' = "rayo"
    /\ idx' = idx
    /\ rayo' = [alcance |-> rayo.alcance - 1, punto |-> Sig(rayo.punto, d),
                direccion |-> d]

\* the ray stops at the current cell and changes nothing
SeDetiene ==
    /\ pc' = "fin_rayo"
    /\ tablero_aux' = tablero_aux
    /\ pila_bombas' = pila_bombas
    /\ resultados' = Append(resultados, "Ok")

\* C1 chaining, for the directions dirs: when the four rays of a detonation
\* have returned, every bomb in its blast radius has been pushed by it; and
\* when comenzar returns Ok, every bomb that stood in the straight blast
\* radius of a detonated bomb, with only cells between them that let the
\* blast pass from the start, holds "_"
Encadena(dirs) ==
    /\ (pc = "fin_rayo" /\ idx = 4) =>
          \A p \in EnRadio(tablero, Punto(bomba.x, bomba.y), bomba.tipo,
                           bomba.alcance, dirs) :
             \E i \in (base_pila + 1) .. Len(pila_bombas) : pila_bombas[i] = p
    /\ resultado = "Ok" =>
          \A b \in Celdas :
             (EsBomba(Ficha(inicial, b)) /\ Ficha(tablero, b) = Vacio) =>
                \A p \in EnRadio(inicial, b, Primero(Ficha(inicial, b)),
                                 DigitoDe(Ficha(inicial, b)), dirs) :
                   Ficha(tablero, p) = Vacio

\* C1: a bomb within the blast radius of a detonated bomb, in any of the four
\* directions, is pushed on the pending queue and holds "_" when comenzar
\* returns Ok
C1_Encadenamiento == Encadena({"L", "U", "R", "D"})

\* chaining as C1 states it, for the three directions other than left
EncadenaSinIzquierda == Encadena({"U", "R", "D"})

\* the obstacle policy for the blasts travelling in one of the directions dirs
Obstaculos(dirs) ==
    /\ (EnCelda("W") /\ rayo.direccion \in dirs) => SeDetiene
    /\ (EnCelda("R") /\ bomba.tipo = "B" /\ rayo.direccion \in dirs)
          => SeDetiene
    /\ (EnCelda("R") /\ bomba.tipo = "S" /\ rayo.direccion \in dirs)
          => (SigueHacia(rayo.direccion) /\ tablero_aux' = tablero_aux)

\* C2: in every direction of travel a wall stops the blast of either bomb
\* kind, a rock stops the blast of a normal bomb, and the blast of a
\* pass-through bomb goes on at the cell behind the rock with one unit of
\* range less
C2_Obstaculos == [][Obstaculos({"L", "U", "R", "D"})]_vars

\* the obstacle policy as C2 states it, for blasts not travelling left
ObstaculosSinIzquierda == [][Obstaculos({"U", "R", "D"})]_vars

\* the token an enemy of health h is left with after one hit
Herido(h) == IF h = 1 THEN Vacio ELSE Enemigo(h - 1)

\* the first hit of the running ray on an enemy, for the directions dirs
PrimerGolpe(dirs) ==
    (/\ EnCelda("F")
     /\ rayo.punto \notin Valores(camino)
     /\ rayo.direccion \in dirs)
    => /\ Ficha(tablero_aux', rayo.punto)
             = Herido(DigitoDe(Ficha(tablero_aux, rayo.punto)))
       /\ \A p \in Celdas :
             p # rayo.punto => Ficha(tablero_aux', p) = Ficha(tablero_aux, p)
       /\ SigueHacia(rayo.direccion)

\* C3: an enemy F<h> hit by a blast becomes F<h-1>, or "_" when h = 1, and
\* the blast goes on past it in the same direction with one unit of range less
C3_DanioEnemigo == [][PrimerGolpe({"L", "U", "R", "D"})]_vars

\* the enemy damage as C3 states it, for blasts not travelling left
DanioEnemigoSinIzquierda == [][PrimerGolpe({"U", "R", "D"})]_vars

\* the running invocation reads an enemy cell this ray has read before
Revisita == EnCelda("F") /\ rayo.punto \in Valores(camino)

\* C4: when one ray visits the same enemy coordinate again, the visit leaves
\* the board unchanged and the ray still goes on with one unit of range less
C4_SinDobleDanio ==
    [][Revisita =>
          /\ tablero_aux' = tablero_aux
          /\ pc' = "rayo"
          /\ idx' = idx
          /\ rayo'.alcance = rayo.alcance - 1
          /\ rayo'.direccion = rayo.direccion]_vars

\* a ray came back, after a deflector, to an enemy it had hit, and the enemy
\* lost one health point only
C4_Testigo ==
    /\ pc \in {"rayo", "fin_rayo"}
    /\ \E i, j, k \in 1 .. Len(camino) :
          /\ i < k /\ k < j
          /\ camino[i] = camino[j]
          /\ EsDesvio(Ficha(tablero_aux, camino[k]))
          /\ Ficha(tablero, camino[i]) = Enemigo(2)
          /\ Ficha(tablero_aux, camino[i]) = Enemigo(1)

\* what is left of an enemy of health h after g hits
Restante(h, g) == IF g >= h THEN Vacio ELSE Enemigo(h - g)

\* C5: every ray starts with an empty affected set, and an enemy loses one
\* health point for every ray, of the same or of another detonation, that
\* reaches it
C5_SinDedupEntreRayos ==
    /\ (pc = "rayo" /\ camino = <<>>) => enemigos_afectados = {}
    /\ \A p \in Celdas :
          EsEnemigo(Ficha(inicial, p)) =>
             Ficha(tablero_aux, p)
                = Restante(DigitoDe(Ficha(inicial, p)), golpes[p])

\* an F2 was hit by two rays of the same detonation and is gone
C5_Testigo ==
    /\ pc \in {"rayo", "fin_rayo"}
    /\ \E p \in Celdas :
          /\ Ficha(tablero, p) = Enemigo(2)
          /\ Ficha(tablero_aux, p) = Vacio
          /\ golpes[p] = 2

\* C6: a blast that reaches a deflector D<dir> with range k goes on at the
\* cell next to the deflector in direction dir, travelling in direction dir
\* with range k - 1, and a deflector cell keeps its token
C6_Desvio ==
    /\ [](\A p \in Celdas :
            EsDesvio(Ficha(inicial, p)) =>
               /\ Ficha(tablero, p) = Ficha(inicial, p)
               /\ Ficha(tablero_aux, p) = Ficha(inicial, p))
    /\ [][\A d \in {"U", "D", "L", "R"} :
            (EnCelda("D") /\ Segundo(Ficha(tablero_aux, rayo.punto)) = d) =>
               /\ SigueHacia(d)
               /\ tablero_aux' = tablero_aux
               /\ pila_bombas' = pila_bombas]_vars

\* a ray has just turned at a deflector
C6_Testigo ==
    /\ pc = "rayo"
    /\ Len(camino) >= 1
    /\ LET ult == camino[Len(camino)]
       IN  /\ EsDesvio(Ficha(tablero_aux, ult))
           /\ rayo.direccion = Segundo(Ficha(tablero_aux, ult))
           /\ rayo.direccion # Direcciones[idx]
           /\ rayo.punto = Sig(ult, rayo.direccion)
           /\ rayo.alcance >= 1
           /\ rayo.alcance = bomba.alcance - Len(camino)

\* the points pushed by the running detonation
Empujadas ==
    {pila_bombas[i] : i \in (base_pila + 1) .. Len(pila_bombas)}

\* C7: a ray of a bomb of range r reads at most r cells, the first next to
\* the bomb and the i-th at most i steps away, and a cell more than r steps
\* away from the bomb is neither chained nor changed by the detonation
C7_LimiteAlcance ==
    pc \in {"rayo", "fin_rayo"} =>
       LET b == Punto(bomba.x, bomba.y)
       IN  /\ Len(camino) <= bomba.alcance
           /\ Len(camino) >= 1 => camino[1] = Sig(b, Direcciones[idx])
           /\ \A i \in 1 .. Len(camino) : Manhattan(camino[i], b) <= i
           /\ \A p \in Celdas :
                 Manhattan(p, b) > bomba.alcance =>
                    /\ Ficha(tablero_aux, p) = Ficha(tablero, p)
                    /\ p \notin Empujadas

\* a ray used up its range one cell short of a bomb or an enemy
C7_Testigo ==
    /\ pc = "fin_rayo"
    /\ Len(camino) = bomba.alcance
    /\ LET p == EnLinea(Punto(bomba.x, bomba.y), Direcciones[idx],
                        bomba.alcance + 1)
       IN  /\ p \in Celdas
           /\ camino[Len(camino)]
                 = EnLinea(Punto(bomba.x, bomba.y), Direcciones[idx],
                           bomba.alcance)
           /\ EsBomba(Ficha(tablero_aux, p)) \/ EsEnemigo(Ficha(tablero_aux, p))
           /\ Ficha(tablero_aux, p) = Ficha(inicial, p)

\* C8: comenzar on a cell that holds no bomb returns "Error: coordenadas
\* invalidas" and leaves the board and the pending queue unchanged
C8_InicioNoBomba ==
    [][(pc = "comenzar" /\ ~EsBomba(Ficha(tablero, llamada))) =>
          /\ pc' = "retorno"
          /\ resultado' = ErrCoord
          /\ tablero' = tablero
          /\ pila_bombas' = pila_bombas]_vars

\* comenzar was called on an enemy or a deflector and returned the error
C8_Testigo ==
    /\ pc = "retorno"
    /\ resultado = ErrCoord
    /\ idx = 0
    /\ EsEnemigo(Ficha(inicial, llamada)) \/ EsDesvio(Ficha(inicial, llamada))
    /\ tablero = inicial
    /\ pila_bombas = <<>>

\* C9: comenzar on a bomb cell whose range is not in 1..9 returns an error
\* and leaves the board unchanged
C9_AlcanceInvalido ==
    [][(/\ pc = "comenzar"
        /\ EsBomba(Ficha(tablero, llamada))
        /\ DigitoDe(Ficha(tablero, llamada)) \notin 1 .. 9) =>
          /\ pc' = "retorno"
          /\ resultado' \notin {"Ok", "pendiente"}
          /\ tablero' = tablero]_vars

\* C10: the rays run and push in the order left, up, right, down, every push
\* goes on top of the pending queue, and the driver detonates next the
\* coordinate on top of it
C10_OrdenLIFO ==
    /\ []((pc = "rayo" /\ camino = <<>>) =>
             (idx \in 1 .. 4 /\ rayo.direccion = Direcciones[idx]))
    /\ [][/\ pc = "rayo" =>
               \/ pila_bombas' = pila_bombas
               \/ \E p \in Celdas : pila_bombas' = Append(pila_bombas, p)
          /\ (pc = "fin_rayo" /\ idx < 4) =>
               (idx' = idx + 1 /\ pila_bombas' = pila_bombas)
          /\ (pc = "fin_rayo" /\ idx = 4 /\ pila_bombas # <<>>
                /\ PrimerError(resultados) = "Ok") =>
               /\ pc' = "comenzar"
               /\ llamada' = pila_bombas[Len(pila_bombas)]
               /\ pila_bombas' = SubSeq(pila_bombas, 1, Len(pila_bombas) - 1)
         ]_vars

\* the bomb pushed last by a detonation was popped while another bomb of the
\* same detonation and an older one stay pending
C10_Testigo ==
    /\ pc = "comenzar"
    /\ base_pila >= 1
    /\ Len(pila_bombas) >= base_pila + 1
    /\ llamada \notin Valores(pila_bombas)
    /\ EsBomba(Ficha(tablero, llamada))

\* C11: when a step of the chain returns an error, comenzar returns that
\* error without committing, popping or detonating anything more, and main
\* writes the error message and nothing else; the file holds a board only
\* when comenzar returned Ok, and then it is the final board of a chain with
\* no pending bomb.
C11_AbortoAtomico ==
    /\ [][(pc = "fin_rayo" /\ idx = 4 /\ PrimerError(resultados) # "Ok")
             => /\ pc' = "retorno"
                /\ resultado' = PrimerError(resultados)]_vars
    /\ [][(pc' = "retorno" /\ resultado' # "Ok")
             => (UNCHANGED <<tablero, pila_bombas, detonadas>>)]_vars
    /\ [][(pc = "retorno" \/ pc = "fin")
             => (UNCHANGED <<tablero, pila_bombas, detonadas,
                             resultado>>)]_vars
    /\ [](pc = "fin" =>
            IF resultado = "Ok"
            THEN /\ salida.bytes = escribir_tablero_final_en_archivo(tablero)
                 /\ pila_bombas = <<>>
            ELSE salida.bytes = <<resultado>>)
    /\ [](pc # "fin" => salida.bytes = <<>>)

\* a chain that committed a detonation and then failed: the file holds the
\* error message only
C11_Testigo ==
    /\ pc = "fin"
    /\ resultado = ErrCoord
    /\ detonadas # <<>>
    /\ tablero # inicial
    /\ salida.bytes = <<ErrCoord>>

\* the tokens of a well-formed board
FichasReconocidas ==
    {Vacio, Pared, Roca}
    \cup {Desvio(d) : d \in {"U", "D", "L", "R"}}
    \cup {Enemigo(h) : h \in 1 .. 9}
    \cup {BombaB(r) : r \in 1 .. 9}
    \cup {BombaS(r) : r \in 1 .. 9}

BienFormado(tab) ==
    /\ DOMAIN tab = Indices
    /\ \A y \in Indices :
         /\ DOMAIN tab[y] = Indices
         /\ \A x \in Indices : tab[y][x] \in FichasReconocidas

\* C12: from an N x N board of recognized tokens every state comenzar
\* reaches holds such a board again, committed and working copy alike (an
\* enemy's health never becomes 0 nor wraps), and every cell comenzar or a
\* ray reads, writes or pushes has both indices in [0, N).
C12_TableroBienFormado ==
    /\ BienFormado(tablero)
    /\ BienFormado(tablero_aux)
    /\ pc # "panico"
    /\ pc = "comenzar" => llamada \in Celdas
    /\ pc \in {"rayo", "fin_rayo"} => Punto(bomba.x, bomba.y) \in Celdas
    /\ \A i \in 1 .. Len(camino) : camino[i] \in Celdas
    /\ \A i \in 1 .. Len(pila_bombas) : pila_bombas[i] \in Celdas

\* a finished chain in which one enemy lost its last point of health and
\* another one lost one of two
C12_Testigo ==
    /\ pc = "fin"
    /\ resultado = "Ok"
    /\ \E p \in Celdas :
         Ficha(inicial, p) = Enemigo(1) /\ Ficha(tablero, p) = Vacio
    /\ \E q \in Celdas :
         Ficha(inicial, q) = Enemigo(2) /\ Ficha(tablero, q) = Enemigo(1)

Cuenta(sq, p) == Cardinality({i \in 1 .. Len(sq) : sq[i] = p})

\* C13: comenzar returns Ok only with pila_bombas empty, and then every
\* point that was ever pushed has been popped and detonated: the committed
\* detonations are the first bomb and, once each, the pushed points, and
\* their cells are empty.
C13_CondicionTerminal ==
    resultado = "Ok" =>
        /\ pila_bombas = <<>>
        /\ detonadas # <<>>
        /\ \A p \in Celdas : Cuenta(Tail(detonadas), p) = Cuenta(empujes, p)
        /\ \A i \in 1 .. Len(empujes) : Ficha(tablero, empujes[i]) = Vacio

\* a chain of at least three pushed bombs that returned Ok
C13_Testigo ==
    /\ resultado = "Ok"
    /\ Len(empujes) >= 3

\* the rows of tokens in the input file
FilasArchivo == [i \in 1 .. Len(archivo) |-> split_whitespace(archivo[i])]

\* as many tokens in every row as there are rows
Cuadrado(filas) == \A i \in 1 .. Len(filas) : Len(filas[i]) = Len(filas)

SoloReconocidas(filas) ==
    \A i \in 1 .. Len(filas) :
        \A j \in 1 .. Len(filas[i]) : filas[i][j] \in FichasReconocidas

\* main returns with "Error: archivo de entrada invalido" in the output file
Rechaza ==
    /\ pc' = "fin"
    /\ salida' = [existe |-> TRUE, bytes |-> <<ErrEntrada>>]
    /\ tablero' = <<>>
    /\ detonadas' = <<>>

\* C14: the loader accepts a (square) file exactly when every token is one
\* of _, W, R, DU, DD, DL, DR, F1..F9, B1..B9, S1..S9; a file with any other
\* token is rejected with "Error: archivo de entrada invalido" and nothing
\* is detonated.
C14_ValidacionFichas ==
    [][(pc = "main" /\ Len(args) >= 5 /\ Cuadrado(FilasArchivo))
         => (Rechaza <=> ~SoloReconocidas(FilasArchivo))]_vars

\* a board with N rows of N tokens each
TableroCuadrado(tab) ==
    \A y \in DOMAIN tab : Cardinality(DOMAIN tab[y]) = Filas(tab)

\* C15: the loader rejects every file whose rows do not all hold as many
\* tokens as there are rows (an empty line included), so comenzar never runs
\* on a board that is not square.
C15_ValidacionForma ==
    /\ [][(pc = "main" /\ Len(args) >= 5 /\ ~Cuadrado(FilasArchivo))
             => Rechaza]_vars
    /\ [](pc \in {"comenzar", "rayo", "fin_rayo", "retorno", "panico"}
            => TableroCuadrado(tablero))
    /\ [](pc # "panico")

\* str is a non-negative integer below n, written in decimal
EnRango(str, n) ==
    LET cuerpo == IF Primero(str) = "+" THEN Tail(str) ELSE str
    IN  /\ cuerpo # <<>>
        /\ \A i \in 1 .. Len(cuerpo) : cuerpo[i] \in Valores(Digitos)
        /\ valor_decimal(cuerpo) < n

\* C16: when the board loads and a coordinate argument is not a non-negative
\* integer below the number of rows, the output file receives exactly
\* "Error: coordenadas invalidas" and nothing is detonated; with fewer than
\* four arguments main returns without creating the output file.
C16_ValidacionCoordenadas ==
    /\ [][(pc = "main" /\ Len(args) < 5)
             => /\ pc' = "fin"
                /\ salida' = [existe |-> FALSE, bytes |-> <<>>]]_vars
    /\ [][(/\ pc = "main"
           /\ Len(args) >= 5
           /\ tablero_desde_archivo(archivo).err = "Ok"
           /\ \/ ~EnRango(args[4], Len(archivo))
              \/ ~EnRango(args[5], Len(archivo)))
             => /\ pc' = "fin"
                /\ salida' = [existe |-> TRUE, bytes |-> <<ErrCoord>>]
                /\ tablero' = tablero_desde_archivo(archivo).tab
                /\ detonadas' = <<>>
                /\ resultado' = "pendiente"]_vars
    /\ [][pc # "fin"]_vars

\* main returned after loading a board and refusing the coordinates
C16_Testigo ==
    /\ pc = "fin"
    /\ tablero # <<>>
    /\ resultado = "pendiente"
    /\ detonadas = <<>>
    /\ salida = [existe |-> TRUE, bytes |-> <<ErrCoord>>]

\* explosion_dirigida computes, for the running ray, the cell next to the
\* current one in the ray's direction
ProximaEs(d) ==
    (pc = "rayo" /\ EnTablero(rayo.punto) /\ rayo.direccion = d) =>
        /\ calcular_prox(d, rayo.punto.x, rayo.punto.y)
             = [err |-> "Ok", pt |-> Sig(rayo.punto, d)]
        /\ calcular_prox("X", rayo.punto.x, rayo.punto.y).err = ErrEntrada

\* C17: the next coordinate of a ray at (x, y) is (x, y-1) for U, (x, y+1)
\* for D, (x-1, y) for L and (x+1, y) for R, the same rule in the four
\* directions, and a ray that passes an empty cell goes on there; any other
\* direction yields an error.
C17_ProximaCoordenada ==
    /\ [](\A d \in {"U", "D", "L", "R"} : ProximaEs(d))
    /\ [][EnCelda("_") => SigueHacia(rayo.direccion)]_vars

\* the same for the directions other than L
ProximaCoordenadaSinIzquierda ==
    /\ [](\A d \in {"U", "D", "R"} : ProximaEs(d))
    /\ [][(EnCelda("_") /\ rayo.direccion # "L")
             => SigueHacia(rayo.direccion)]_vars

\* the running ray is at a cell of the board that sends it on in direction
\* d: a deflector pointing to d, or, for a ray travelling in d, a cell that
\* lets the blast pass
Continua(d) ==
    /\ pc = "rayo"
    /\ rayo.alcance >= 1
    /\ EnTablero(rayo.punto)
    /\ LET t == Ficha(tablero_aux, rayo.punto)
       IN  \/ EsDesvio(t) /\ Segundo(t) = d
           \/ DejaPasar(t, bomba.tipo) /\ rayo.direccion = d

\* the invocation of explosion_dirigida returns Ok and leaves the board,
\* the pending bombs and the cells read as they are
Disipa ==
    /\ pc' = "fin_rayo"
    /\ resultados' = Append(resultados, "Ok")
    /\ tablero_aux' = tablero_aux
    /\ pila_bombas' = pila_bombas
    /\ camino' = camino
    /\ golpes' = golpes

\* the first invocation of a ray is at the cell next to the bomb
PrimerPaso ==
    (pc' = "rayo" /\ pc # "rayo")
        => rayo'.punto = Sig(Punto(bomba'.x, bomba'.y), Direcciones[idx'])

\* for straight travel in the directions dirs and for every deflector: the
\* step off the board is taken to the wrapped or the N-th coordinate, not to
\* a cell of the board
PasoAlBorde(dirs) ==
    \A d \in {"U", "D", "L", "R"} :
        (/\ Continua(d)
         /\ ~EnTablero(Sig(rayo.punto, d))
         /\ d \in dirs \/ EsDesvio(Ficha(tablero_aux, rayo.punto)))
          => /\ pc' = "rayo"
             /\ rayo'.punto = Sig(rayo.punto, d)
             /\ ~EnTablero(rayo'.punto)

\* a coordinate of a ray is in 0 .. N or the wrapped -1
CoordenadasDeRayo ==
    /\ N < UsizeMod
    /\ pc = "rayo" =>
          /\ rayo.punto.x \in (0 .. N) \cup {UsizeMod - 1}
          /\ rayo.punto.y \in (0 .. N) \cup {UsizeMod - 1}

\* C18: with usize coordinates (0 - 1 wraps to 2^w - 1), a ray step that
\* would move to x = -1, y = -1, x = N or y = N ends the ray with Ok: the
\* step is taken to a coordinate off the board, the invocation there reads
\* and writes no cell, produces no error, and the ray never comes back into
\* the board, N being below 2^w.
C18_DisipacionEnBorde ==
    /\ []CoordenadasDeRayo
    /\ [][PrimerPaso]_vars
    /\ [][PasoAlBorde({"U", "D", "L", "R"})]_vars
    /\ [][(pc = "rayo" /\ ~EnTablero(rayo.punto)) => Disipa]_vars

\* the same, straight travel to the left excepted
DisipacionSinIzquierda ==
    /\ []CoordenadasDeRayo
    /\ [][PrimerPaso]_vars
    /\ [][PasoAlBorde({"U", "D", "R"})]_vars
    /\ [][(pc = "rayo" /\ ~EnTablero(rayo.punto)) => Disipa]_vars

\* C19: a ray that reaches a bomb pushes the bomb's coordinate and returns;
\* it leaves the bomb's cell and every other cell as they are, the pushed
\* bombs stay untouched while the detonation runs, and comenzar is entered
\* for a pushed bomb only when the four rays have returned and the board
\* has been committed.
C19_EncadenamientoDiferido ==
    /\ [][(EnCelda("B") \/ EnCelda("S"))
             => /\ pc' = "fin_rayo"
                /\ tablero_aux' = tablero_aux
                /\ pila_bombas' = Append(pila_bombas, rayo.punto)
                /\ resultados' = Append(resultados, "Ok")]_vars
    /\ [](pc \in {"rayo", "fin_rayo"} =>
            \A p \in Empujadas :
                /\ EsBomba(Ficha(tablero_aux, p))
                /\ Ficha(tablero_aux, p) = Ficha(tablero, p))
    /\ [][(pc' = "comenzar")
             => /\ pc = "fin_rayo"
                /\ idx = 4
                /\ Len(resultados) = 4
                /\ tablero' = tablero_aux
                /\ llamada' = pila_bombas[Len(pila_bombas)]
                /\ Len(pila_bombas') = Len(pila_bombas) - 1]_vars
    /\ [][(pc = "comenzar" /\ pc' = "rayo")
             => /\ Punto(bomba'.x, bomba'.y) = llamada
                /\ tablero_aux' = [tablero EXCEPT ![llamada.y][llamada.x]
                                                     = Vacio]]_vars

\* the rays of a chained bomb are running
C19_Testigo ==
    /\ pc = "rayo"
    /\ detonadas # <<>>
    /\ Punto(bomba.x, bomba.y) \in Valores(empujes)
    /\ EsBomba(Ficha(tablero, Punto(bomba.x, bomba.y)))

\* C20: the remaining range of a ray decreases by exactly one at every
\* propagation step (empty cell, enemy, rock under an S bomb, deflector), a
\* ray without range returns, and so a ray returns after reading at most as
\* many cells as the range of its bomb, deflectors that send it back and
\* forth included.
C20_TerminacionDeRayo ==
    /\ [][(pc = "rayo" /\ pc' = "rayo" /\ idx' = idx)
             => /\ rayo'.alcance = rayo.alcance - 1
                /\ Len(camino') = Len(camino) + 1]_vars
    /\ [][(pc = "rayo" /\ rayo.alcance = 0) => pc' = "fin_rayo"]_vars
    /\ [](pc = "rayo" =>
            /\ rayo.alcance \in 0 .. bomba.alcance
            /\ Len(camino) + rayo.alcance = bomba.alcance)
    /\ [](pc = "fin_rayo" => Len(camino) <= bomba.alcance)

\* a ray returned after two deflectors sent it back and forth until its
\* range was used up
C20_Testigo ==
    /\ pc = "fin_rayo"
    /\ Len(camino) = bomba.alcance
    /\ \E i, j \in 1 .. Len(camino) :
          /\ i + 2 = j
          /\ camino[i] = camino[j]
          /\ camino[i + 1] # camino[i]
          /\ EsDesvio(Ficha(tablero_aux, camino[i]))
          /\ EsDesvio(Ficha(tablero_aux, camino[i + 1]))

\* C21: a detonation at (x, y) sets (x, y) to "_" in the working copy and
\* runs the four rays in the order left, up, right, down, each from the cell
\* next to the bomb with the bomb's range, whatever the earlier rays
\* returned; when a ray failed it returns the error of the first failing ray
\* and otherwise the board as the four rays left it.
C21_Orquestador ==
    /\ [][(pc = "comenzar" /\ pc' = "rayo")
             => /\ tablero_aux' = [tablero EXCEPT ![llamada.y][llamada.x]
                                                     = Vacio]
                /\ idx' = 1
                /\ resultados' = <<>>]_vars
    /\ [][(pc = "fin_rayo" /\ idx < 4)
             => /\ pc' = "rayo"
                /\ idx' = idx + 1
                /\ tablero_aux' = tablero_aux
                /\ pila_bombas' = pila_bombas
                /\ resultados' = resultados]_vars
    /\ [][(pc' = "rayo" /\ pc # "rayo")
             => rayo' = [alcance |-> bomba'.alcance,
                         punto |-> Sig(Punto(bomba'.x, bomba'.y),
                                       <<"L", "U", "R", "D">>[idx']),
                         direccion |-> <<"L", "U", "R", "D">>[idx']]]_vars
    /\ [](pc = "fin_rayo" => Len(resultados) = idx)
    /\ [][(pc = "fin_rayo" /\ idx = 4)
             => IF \A i \in 1 .. 4 : resultados[i] = "Ok"
                THEN tablero' = tablero_aux
                ELSE /\ pc' = "retorno"
                     /\ tablero' = tablero
                     /\ \E i \in 1 .. 4 :
                          /\ resultados[i] # "Ok"
                          /\ \A j \in 1 .. i - 1 : resultados[j] = "Ok"
                          /\ resultado' = resultados[i]]_vars

\* a detonation whose left ray failed and whose later rays pushed a bomb
C21_Testigo ==
    /\ pc = "retorno"
    /\ resultado = ErrEntrada
    /\ resultados[1] # "Ok"
    /\ Len(pila_bombas) > base_pila

\* C22: on a well-formed board a run of comenzar started at a bomb never
\* returns an error, and every point popped from pila_bombas still holds a
\* bomb when comenzar is entered for it: a bomb pushed several times is
\* detonated once and its other entries do no harm.
C22_SinDobleDetonacion ==
    /\ (pc = "comenzar" /\ detonadas # <<>>)
          => EsBomba(Ficha(tablero, llamada))
    /\ detonadas # <<>> => resultado \in {"pendiente", "Ok"}

\* the token t0 the run started with at p, against the token t at p in a
\* board of the run; detonado: a detonation has cleared p in that board
MarcoDeCelda(p, t0, t, detonado) ==
    /\ (t0 \in {Vacio, Pared, Roca} \/ EsDesvio(t0)) => t = t0
    /\ EsBomba(t0) => (t = t0 \/ (t = Vacio /\ detonado))
    /\ EsEnemigo(t0) =>
          /\ \/ t = Vacio
             \/ /\ EsEnemigo(t)
                /\ DigitoDe(t) >= 1
                /\ DigitoDe(t) <= DigitoDe(t0)
          /\ t # t0 => golpes[p] >= 1
    /\ EsBomba(t) => t = t0
    /\ EsEnemigo(t) => EsEnemigo(t0)

\* C23: the only cells a run of comenzar changes are the cells of detonated
\* bombs, set to "_", and the cells of enemies hit by a ray, whose health is
\* lowered or which are set to "_"; walls, rocks, deflectors, empty cells
\* and bombs not detonated keep their token, in the committed board and in
\* the working copy, and no bomb or enemy is created.
C23_MarcoDeDetonacion ==
    \A p \in Celdas :
        /\ MarcoDeCelda(p, Ficha(inicial, p), Ficha(tablero, p),
                        p \in Valores(detonadas))
        /\ MarcoDeCelda(p, Ficha(inicial, p), Ficha(tablero_aux, p),
                        \/ p \in Valores(detonadas)
                        \/ p = Punto(bomba.x, bomba.y))

\* a finished run that detonated a bomb, hurt an enemy and left another
\* bomb, a wall or a rock where they were
C23_Testigo ==
    /\ pc = "fin"
    /\ resultado = "Ok"
    /\ \E p \in Celdas :
          EsEnemigo(Ficha(inicial, p)) /\ Ficha(tablero, p) # Ficha(inicial, p)
    /\ \E p \in Celdas :
          EsBomba(Ficha(inicial, p)) /\ Ficha(tablero, p) = Ficha(inicial, p)
    /\ \E p \in Celdas : Ficha(tablero, p) \in {Pared, Roca}

\* C24: the rays work on a copy that replaces tablero only when the four
\* rays of a detonation returned Ok; when comenzar returns an error tablero
\* is the board of the last successful detonation, with the bomb of the
\* failing step in its cell and the enemies as that board had them, and
\* pila_bombas keeps what the failing step pushed.
C24_FalloSinCompromiso ==
    /\ [][tablero' # tablero
             => /\ pc = "fin_rayo"
                /\ idx = 4
                /\ \A i \in 1 .. 4 : resultados[i] = "Ok"
                /\ tablero' = tablero_aux]_vars
    /\ [][(pc' = "retorno" /\ resultado' # "Ok")
             => /\ tablero' = tablero
                /\ pila_bombas' = pila_bombas]_vars
    /\ [](\A p \in Celdas :
            (EsBomba(Ficha(inicial, p)) /\ p \notin Valores(detonadas))
               => Ficha(tablero, p) = Ficha(inicial, p))

\* a chain whose second detonation failed after its rays had hit an enemy:
\* the committed board still holds the bomb and the enemy's health
C24_Testigo ==
    /\ pc = "retorno"
    /\ resultado = ErrEntrada
    /\ detonadas # <<>>
    /\ EsBomba(Ficha(tablero, Punto(bomba.x, bomba.y)))
    /\ Ficha(tablero_aux, Punto(bomba.x, bomba.y)) = Vacio
    /\ \E p \in Celdas :
          /\ EsEnemigo(Ficha(tablero, p))
          /\ Ficha(tablero_aux, p) # Ficha(tablero, p)

NumBombas(tab) == Cardinality({p \in Celdas : EsBomba(Ficha(tab, p))})

\* C25: comenzar terminates on every well-formed board from every start
\* cell; each committed detonation takes one bomb off the board and no bomb
\* is added, so a run makes at most as many detonations as the initial
\* board has bombs.
C25_TerminacionDelChofer ==
    /\ <>(pc = "retorno")
    /\ [](NumBombas(tablero) + Len(detonadas) = NumBombas(inicial))
    /\ [](Len(detonadas) <= NumBombas(inicial))
    /\ [][detonadas' # detonadas
             => /\ Len(detonadas') = Len(detonadas) + 1
                /\ NumBombas(tablero') = NumBombas(tablero) - 1]_vars

\* comenzar returned after detonating every bomb of a board with four bombs
C25_Testigo ==
    /\ pc = "retorno"
    /\ NumBombas(inicial) >= 4
    /\ Len(detonadas) = NumBombas(inicial)

\* the token the run started with in the cell of the running detonation
FichaDeBomba == Ficha(inicial, Punto(bomba.x, bomba.y))

\* C26: every detonation, the chained ones included, uses the kind and the
\* range of the token in the cell comenzar is entered for: its rays start
\* with that range, a rock stops them when that token is a B bomb and lets
\* them pass when it is an S bomb, whatever bomb chained it.
C26_ParametrosPropios ==
    /\ [][(pc = "comenzar" /\ pc' = "rayo")
             => /\ bomba' = [x |-> llamada.x, y |-> llamada.y,
                             alcance |-> DigitoDe(Ficha(tablero, llamada)),
                             tipo |-> Primero(Ficha(tablero, llamada))]
                /\ rayo'.alcance = DigitoDe(Ficha(tablero, llamada))]_vars
    /\ [](pc = "rayo" =>
            Len(camino) + rayo.alcance = DigitoDe(FichaDeBomba))
    /\ [][(EnCelda("R") /\ Primero(FichaDeBomba) = "B") => SeDetiene]_vars
    /\ [][(EnCelda("R") /\ Primero(FichaDeBomba) = "S") => pc' = "rayo"]_vars

\* a B bomb chained by an S bomb of another range: its ray has just been
\* stopped by a rock
C26_Testigo ==
    /\ pc = "fin_rayo"
    /\ Primero(FichaDeBomba) = "B"
    /\ Punto(bomba.x, bomba.y) \in Valores(empujes)
    /\ Len(detonadas) = 1
    /\ Primero(Ficha(inicial, detonadas[1])) = "S"
    /\ DigitoDe(Ficha(inicial, detonadas[1])) # DigitoDe(FichaDeBomba)
    /\ camino # <<>>
    /\ Ficha(tablero_aux, camino[Len(camino)]) = Roca

====
